---- MODULE Spec2Model ----
(***************************************************************************)
(* A model of evergreen-rs: the JSON flattener (to_flat_json_int /         *)
(* to_flat_json), the derived field-path enumerator (EvgFields, make_name) *)
(* and the record loop of main.                                            *)
(*                                                                         *)
(* Text is modelled by TLA+ strings; "\n" is the newline character.        *)
(***************************************************************************)
EXTENDS Integers, Sequences, FiniteSets, TLC

VARIABLES
    \* ---- the flattener: one run of to_flat_json on a parsed tree
    tree,       \* the JsonValue handed to to_flat_json_int by to_flat_json
    stack,      \* the call stack of to_flat_json_int, innermost call last
    r,          \* the String the lines are written to (to_flat_json's `r`)
    emitted,    \* history: one entry per write! executed, in order
    visited,    \* history: the route of every call of to_flat_json_int made
    fresult,    \* "running", or "Ok" once to_flat_json has returned Ok(r)
    \* ---- the field-path enumerator: one use of #[derive(EvgFields)]
    decl,       \* the type declaration the derive macro is applied to
    add_fields, \* the names the generated evg_fields_nested pushes, in order
    epc,        \* "derive", "panic", "ready", "run" or "returned"
    call,       \* which entry point was called: "evg_fields" or "nested"
    eprefix,    \* the `prefix` argument of evg_fields_nested
    out,        \* the `out` vector of evg_fields_nested
    out0,       \* history: `out` as it was when evg_fields_nested was called
    idx,        \* the generated push statement evg_fields_nested is at
    joined,     \* history: the last call of make_name and what it returned
    \* ---- main: one run of the command
    argv,       \* the command line: --output, --url and --filter as given
    args,       \* the Cli that Cli::from_args returned
    pc,         \* the statement main is at (where it stopped, once it has)
    hosts,      \* the Vec<Host> that get_hosts returned
    filter,     \* the Option<Regex> compiled from --filter
    cur,        \* the position in `hosts` of the record the loop is at
    stdout,     \* what println! has written, one entry per call
    printed,    \* history: the position in `hosts` of each record printed
    exit        \* "running"; "Ok" or "Err" as main returned; "panic"; "usage"

fvars == <<tree, stack, r, emitted, visited, fresult>>

evars == <<decl, add_fields, epc, call, eprefix, out, out0, idx, joined>>

mvars == <<argv, args, pc, hosts, filter, cur, stdout, printed, exit>>

vars == <<fvars, evars, mvars>>

(***************************************************************************)
(* Bounds of the model.                                                    *)
(***************************************************************************)
\* The largest number of nodes of a tree handed to the flattener.
MaxNodes == 4

(***************************************************************************)
(* Formatting of integers, as `{}` does for usize and for a Number with    *)
(* exponent 0.                                                             *)
(***************************************************************************)
Digits == <<"0", "1", "2", "3", "4", "5", "6", "7", "8", "9">>

RECURSIVE fmt_usize(_)
fmt_usize(n) ==
    IF n < 10 THEN Digits[n + 1]
    ELSE fmt_usize(n \div 10) \o Digits[(n % 10) + 1]

\* A Number of the json crate is a sign and a mantissa (exponent 0 here).
fmt_number(n) == (IF n.positive THEN "" ELSE "-") \o fmt_usize(n.mantissa)

fmt_bool(b) == IF b THEN "true" ELSE "false"

(***************************************************************************)
(* JsonValue.  An Object keeps its members in insertion order, with        *)
(* distinct keys; o.iter() yields them in that order.                      *)
(***************************************************************************)
Null == [t |-> "Null"]
Short(s) == [t |-> "Short", s |-> s]
String(s) == [t |-> "String", s |-> s]
Number(pos, m) == [t |-> "Number", n |-> [positive |-> pos, mantissa |-> m]]
Boolean(b) == [t |-> "Boolean", b |-> b]
Object(members) == [t |-> "Object", o |-> members]
Array(members) == [t |-> "Array", arr |-> members]

IsContainer(v) == v.t \in {"Object", "Array"}

Members(v) == IF v.t = "Object" THEN v.o ELSE v.arr

\* The i-th (1-based) child value of a container.
Child(v, i) == IF v.t = "Object" THEN v.o[i][2] ELSE v.arr[i]

(***************************************************************************)
(* The trees the flattener is run on: every JsonValue of at most MaxNodes  *)
(* nodes over these scalars and keys.                                      *)
(***************************************************************************)
Scalars ==
    { Null, Boolean(TRUE), Boolean(FALSE), Number(FALSE, 105), Short("b"),
      String("q\"x\ny") }

Keys == {"", "a"}

\* The sequences of k distinct keys.
KeySeqs(k) ==
    { ks \in [1..k -> Keys] : \A i, j \in 1..k : ks[i] = ks[j] => i = j }

RECURSIVE TreesOfSize(_), Forests(_)
\* The non-empty sequences of trees with m nodes in all (<<>> for m = 0).
Forests(m) ==
    IF m = 0 THEN {<<>>}
    ELSE UNION { { <<c>> \o f : c \in TreesOfSize(k), f \in Forests(m - k) }
                 : k \in 1..m }

\* The trees with exactly n nodes.
TreesOfSize(n) ==
    IF n = 1 THEN Scalars \cup {Object(<<>>), Array(<<>>)}
    ELSE { Array(f) : f \in Forests(n - 1) } \cup
         UNION { { Object([i \in 1..Len(f) |-> <<ks[i], f[i]>>])
                   : ks \in KeySeqs(Len(f)) }
                 : f \in Forests(n - 1) }

\* The trees of at most `most` nodes.
Trees(most) == UNION { TreesOfSize(n) : n \in 1..most }

(***************************************************************************)
(* to_flat_json_int, one call per stack frame.  A frame holds the value    *)
(* `v`, the `prefix` argument, the position `i` of the loop over the       *)
(* members (1-based; unused for scalars) and, as history, the route of     *)
(* child positions from the root to `v`.                                   *)
(***************************************************************************)
Frame(v, prefix, route) == [v |-> v, prefix |-> prefix, i |-> 1, route |-> route]

Top == stack[Len(stack)]

Pop == SubSeq(stack, 1, Len(stack) - 1)

\* Ok(()) of the outermost call returns to to_flat_json, which returns Ok(r).
ResultAfter(stk) == IF stk = <<>> THEN "Ok" ELSE "running"

\* A scalar arm: write!(writer, "{}:<text>\n", prefix), then Ok(()).
WriteLine(text) ==
    LET line == Top.prefix \o ":" \o text \o "\n" IN
    /\ r' = r \o line
    /\ emitted' = Append(emitted, [route |-> Top.route, prefix |-> Top.prefix,
                                   text |-> line])
    /\ stack' = Pop
    /\ fresult' = ResultAfter(Pop)
    /\ UNCHANGED <<tree, visited, evars, mvars>>

\* The Null arm writing nothing.
NullArm_silent ==
    /\ stack # <<>>
    /\ Top.v.t = "Null"
    /\ stack' = Pop
    /\ fresult' = ResultAfter(Pop)
    /\ UNCHANGED <<tree, r, emitted, visited, evars, mvars>>

NullArm ==
    /\ stack # <<>>
    /\ Top.v.t = "Null"
    /\ WriteLine("null")

ShortArm ==
    /\ stack # <<>>
    /\ Top.v.t = "Short"
    /\ WriteLine(Top.v.s)

\* The String arm formatting with {:?}: quoted.
StringArm_quoted ==
    /\ stack # <<>>
    /\ Top.v.t = "String"
    /\ WriteLine("\"" \o Top.v.s \o "\"")

StringArm ==
    /\ stack # <<>>
    /\ Top.v.t = "String"
    /\ WriteLine(Top.v.s)

NumberArm ==
    /\ stack # <<>>
    /\ Top.v.t = "Number"
    /\ WriteLine(fmt_number(Top.v.n))

BooleanArm ==
    /\ stack # <<>>
    /\ Top.v.t = "Boolean"
    /\ WriteLine(fmt_bool(Top.v.b))

\* The prefix an Object passes down for the member with key `key`.
ObjectPrefix(prefix, key) ==
    IF prefix = "" THEN key ELSE prefix \o "." \o key

\* The prefix an Array passes down for the member at index i (from 0).
ArrayPrefix(prefix, i) ==
    IF prefix = "" THEN fmt_usize(i) ELSE prefix \o "." \o fmt_usize(i)

\* The recursive call for the member the loop is at.
Call(child, prefix) ==
    LET route == Append(Top.route, Top.i) IN
    /\ stack' = Append([stack EXCEPT ![Len(stack)].i = @ + 1],
                       Frame(child, prefix, route))
    /\ visited' = Append(visited, route)
    /\ UNCHANGED <<tree, r, emitted, fresult, evars, mvars>>

ObjectArm ==
    /\ stack # <<>>
    /\ Top.v.t = "Object"
    /\ Top.i <= Len(Top.v.o)
    /\ LET field == Top.v.o[Top.i] IN
       Call(field[2], ObjectPrefix(Top.prefix, field[1]))

\* The Array arm leaving out the last member.
ArrayArm_but_last ==
    /\ stack # <<>>
    /\ Top.v.t = "Array"
    /\ Top.i < Len(Top.v.arr)
    /\ Call(Top.v.arr[Top.i], ArrayPrefix(Top.prefix, Top.i - 1))

ArrayArm ==
    /\ stack # <<>>
    /\ Top.v.t = "Array"
    /\ Top.i <= Len(Top.v.arr)
    /\ Call(Top.v.arr[Top.i], ArrayPrefix(Top.prefix, Top.i - 1))

\* The loop of an Object or Array is over: Ok(()).
LoopDone ==
    /\ stack # <<>>
    /\ IsContainer(Top.v)
    /\ Top.i > Len(Members(Top.v))
    /\ stack' = Pop
    /\ fresult' = ResultAfter(Pop)
    /\ UNCHANGED <<tree, r, emitted, visited, evars, mvars>>

(***************************************************************************)
(* make_name (evergreen-rs-types).                                         *)
(***************************************************************************)
\* make_name without the test of the prefix.
make_name_always_dot(prefix, suffix) == prefix \o "." \o suffix

make_name(prefix, suffix) ==
    IF Len(prefix) > 0 THEN prefix \o "." \o suffix ELSE suffix

(***************************************************************************)
(* #[derive(EvgFields)] (evergreen-rs-derive).  A declaration is what syn  *)
(* parses: the type's ident and its Data; a field is its ident and type.   *)
(***************************************************************************)
Field(ident, ty) == [ident |-> ident, ty |-> ty]

NamedStruct(ident, named) ==
    [ident |-> ident,
     data |-> [kind |-> "Struct", fields |-> [kind |-> "Named", named |-> named]]]

Distro ==
    NamedStruct("Distro",
        << Field("distro_id", "String"), Field("provider", "String"),
           Field("image_id", "String") >>)

Tag ==
    NamedStruct("Tag",
        << Field("key", "String"), Field("value", "String"),
           Field("can_be_modified", "bool") >>)

Host ==
    NamedStruct("Host",
        << Field("host_id", "String"), Field("host_url", "String"),
           Field("distro", "Distro"), Field("provisioned", "bool"),
           Field("started_by", "String"), Field("host_type", "String"),
           Field("user", "String"), Field("status", "String"),
           Field("user_host", "bool"), Field("no_expiration", "bool"),
           Field("instance_tags", "Vec<Tag>"), Field("instance_type", "String"),
           Field("zone", "String"), Field("display_name", "String"),
           Field("home_volume_id", "String") >>)

\* Declarations of the other shapes evg_fields_impl distinguishes.
TupleStruct ==
    [ident |-> "Pair",
     data |-> [kind |-> "Struct",
               fields |-> [kind |-> "Unnamed", unnamed |-> <<"String", "bool">>]]]

UnitStruct ==
    [ident |-> "Marker", data |-> [kind |-> "Struct", fields |-> [kind |-> "Unit"]]]

EnumDecl == [ident |-> "OutputType", data |-> [kind |-> "Enum"]]

Decls == {Distro, Tag, Host, TupleStruct, UnitStruct, EnumDecl}

\* The field types that are sequences.
SequenceTypes == {"Vec<Tag>"}

\* evg_fields_impl pushing the fields last to first.
evg_fields_impl_reversed(data) ==
    CASE data.fields.kind = "Named" ->
            [i \in 1..Len(data.fields.named) |->
                data.fields.named[Len(data.fields.named) + 1 - i].ident]
      [] data.fields.kind = "Unnamed" -> <<>>
      [] data.fields.kind = "Unit" -> <<>>

\* evg_fields_impl leaving out the fields of sequence type.
evg_fields_impl_skip_sequences(data) ==
    CASE data.fields.kind = "Named" ->
            LET kept == SelectSeq(data.fields.named,
                                  LAMBDA f : f.ty \notin SequenceTypes)
            IN  [i \in 1..Len(kept) |-> kept[i].ident]
      [] data.fields.kind = "Unnamed" -> <<>>
      [] data.fields.kind = "Unit" -> <<>>

\* evg_fields_impl: the name_str of every out.push(make_name(prefix, name_str))
\* statement it generates, in order.  Only called on Data::Struct here; for
\* Data::Enum and Data::Union it is unimplemented!().
evg_fields_impl(data) ==
    CASE data.fields.kind = "Named" ->
            [i \in 1..Len(data.fields.named) |-> data.fields.named[i].ident]
      [] data.fields.kind = "Unnamed" -> <<>>
      [] data.fields.kind = "Unit" -> <<>>

\* The macro evg_fields, on a struct.
Derive ==
    /\ epc = "derive"
    /\ decl.data.kind = "Struct"
    /\ add_fields' = evg_fields_impl(decl.data)
    /\ epc' = "ready"
    /\ UNCHANGED <<decl, call, eprefix, out, out0, idx, joined, fvars, mvars>>

\* The macro evg_fields, on an enum or a union: unimplemented!().
DeriveUnimplemented ==
    /\ epc = "derive"
    /\ decl.data.kind \in {"Enum", "Union"}
    /\ epc' = "panic"
    /\ UNCHANGED <<decl, add_fields, call, eprefix, out, out0, idx, joined, fvars, mvars>>

\* The prefixes and vectors evg_fields_nested is called with.
Prefixes == {"", "p", "distro"}

Outs == {<<>>, <<"x">>}

\* EvgFields::evg_fields: a new vector and the empty prefix.
CallEvgFields ==
    /\ epc = "ready"
    /\ call' = "evg_fields"
    /\ eprefix' = ""
    /\ out' = <<>>
    /\ out0' = <<>>
    /\ idx' = 1
    /\ epc' = "run"
    /\ UNCHANGED <<decl, add_fields, joined, fvars, mvars>>

\* A direct call of the generated evg_fields_nested.
CallEvgFieldsNested ==
    /\ epc = "ready"
    /\ \E p \in Prefixes, o \in Outs :
          /\ eprefix' = p
          /\ out' = o
          /\ out0' = o
    /\ call' = "nested"
    /\ idx' = 1
    /\ epc' = "run"
    /\ UNCHANGED <<decl, add_fields, joined, fvars, mvars>>

\* One generated statement: out.push(make_name(prefix, name_str)).
Push ==
    /\ epc = "run"
    /\ idx <= Len(add_fields)
    /\ LET name == make_name(eprefix, add_fields[idx]) IN
       /\ out' = Append(out, name)
       /\ joined' = [prefix |-> eprefix, suffix |-> add_fields[idx],
                     result |-> name]
    /\ idx' = idx + 1
    /\ UNCHANGED <<decl, add_fields, epc, call, eprefix, out0, fvars, mvars>>

\* The end of the generated body.
Return ==
    /\ epc = "run"
    /\ idx > Len(add_fields)
    /\ epc' = "returned"
    /\ UNCHANGED <<decl, add_fields, call, eprefix, out, out0, idx, joined, fvars, mvars>>

\* The strings make_name is called with by a caller of its own.
PathStrings == {"", "p", "a.b", ".", "distro", "x"}

\* A call of make_name from outside the generated code.
MakeName ==
    /\ \E p \in PathStrings, x \in PathStrings :
          joined' = [prefix |-> p, suffix |-> x, result |-> make_name(p, x)]
    /\ UNCHANGED <<decl, add_fields, epc, call, eprefix, out, out0, idx, fvars, mvars>>

NoJoin == [prefix |-> "", suffix |-> "", result |-> ""]

(***************************************************************************)
(* to_flat_json_int as the function it is: what it writes for `v` when     *)
(* called with `prefix`.  main uses it through to_flat_json.               *)
(***************************************************************************)
RECURSIVE to_flat_json_int(_, _), flat_members(_, _, _)
to_flat_json_int(v, prefix) ==
    CASE v.t = "Null" -> prefix \o ":null\n"
      [] v.t = "Short" -> prefix \o ":" \o v.s \o "\n"
      [] v.t = "String" -> prefix \o ":" \o v.s \o "\n"
      [] v.t = "Number" -> prefix \o ":" \o fmt_number(v.n) \o "\n"
      [] v.t = "Boolean" -> prefix \o ":" \o fmt_bool(v.b) \o "\n"
      [] v.t = "Object" -> flat_members(v, prefix, 1)
      [] v.t = "Array" -> flat_members(v, prefix, 1)

\* The loop over the members of an Object or Array, from member i on.
flat_members(v, prefix, i) ==
    IF i > Len(Members(v)) THEN ""
    ELSE to_flat_json_int(Child(v, i),
                          IF v.t = "Object"
                          THEN ObjectPrefix(prefix, v.o[i][1])
                          ELSE ArrayPrefix(prefix, i - 1))
         \o flat_members(v, prefix, i + 1)

(***************************************************************************)
(* json::parse, on the documents of the model: objects, arrays, strings    *)
(* with the escapes \" \\ \/ \n \r \t, true, false, null and integers.     *)
(* A result is [ok, v, pos]: the value and the position after it.          *)
(***************************************************************************)
\* The character at position i, "" past the end.
CharAt(s, i) == IF i > Len(s) THEN "" ELSE SubSeq(s, i, i)

ParseErr == [ok |-> FALSE]

ParseOk(v, pos) == [ok |-> TRUE, v |-> v, pos |-> pos]

RECURSIVE skip_ws(_, _)
skip_ws(s, i) ==
    IF CharAt(s, i) \in {" ", "\n", "\t", "\r"} THEN skip_ws(s, i + 1) ELSE i

\* A string of at most this many bytes is parsed to JsonValue::Short.
ShortMaxLen == 30

\* From<&str> for JsonValue.
json_from_str(s) == IF Len(s) <= ShortMaxLen THEN Short(s) ELSE String(s)

Unescaped(c) ==
    CASE c = "\"" -> "\""
      [] c = "\\" -> "\\"
      [] c = "/" -> "/"
      [] c = "n" -> "\n"
      [] c = "r" -> "\r"
      [] c = "t" -> "\t"
      [] OTHER -> ""

RECURSIVE parse_string(_, _, _)
\* The string whose opening quote is before position i; acc is what was read.
parse_string(s, i, acc) ==
    LET c == CharAt(s, i) IN
    CASE c = "" -> ParseErr
      [] c = "\"" -> ParseOk(acc, i + 1)
      [] c = "\\" ->
            IF Unescaped(CharAt(s, i + 1)) = "" THEN ParseErr
            ELSE parse_string(s, i + 2, acc \o Unescaped(CharAt(s, i + 1)))
      [] OTHER -> parse_string(s, i + 1, acc \o c)

DigitValue(c) == CHOOSE d \in 0..9 : Digits[d + 1] = c

IsDigit(c) == \E d \in 1..10 : Digits[d] = c

RECURSIVE parse_digits(_, _, _)
parse_digits(s, i, acc) ==
    IF IsDigit(CharAt(s, i))
    THEN parse_digits(s, i + 1, acc * 10 + DigitValue(CharAt(s, i)))
    ELSE [mantissa |-> acc, pos |-> i]

\* Object::insert: a key already there keeps its place and gets the value.
object_insert(members, key, v) ==
    IF \E j \in 1..Len(members) : members[j][1] = key
    THEN [j \in 1..Len(members) |->
            IF members[j][1] = key THEN <<key, v>> ELSE members[j]]
    ELSE Append(members, <<key, v>>)

RECURSIVE parse_value(_, _), parse_members(_, _, _), parse_elements(_, _, _)
parse_value(s, i0) ==
    LET i == skip_ws(s, i0)
        c == CharAt(s, i)
    IN
    CASE c = "{" ->
            IF CharAt(s, skip_ws(s, i + 1)) = "}"
            THEN ParseOk(Object(<<>>), skip_ws(s, i + 1) + 1)
            ELSE parse_members(s, skip_ws(s, i + 1), <<>>)
      [] c = "[" ->
            IF CharAt(s, skip_ws(s, i + 1)) = "]"
            THEN ParseOk(Array(<<>>), skip_ws(s, i + 1) + 1)
            ELSE parse_elements(s, i + 1, <<>>)
      [] c = "\"" ->
            LET str == parse_string(s, i + 1, "") IN
            IF str.ok THEN ParseOk(json_from_str(str.v), str.pos) ELSE ParseErr
      [] c = "t" ->
            IF SubSeq(s, i, i + 3) = "true" THEN ParseOk(Boolean(TRUE), i + 4)
            ELSE ParseErr
      [] c = "f" ->
            IF SubSeq(s, i, i + 4) = "false" THEN ParseOk(Boolean(FALSE), i + 5)
            ELSE ParseErr
      [] c = "n" ->
            IF SubSeq(s, i, i + 3) = "null" THEN ParseOk(Null, i + 4)
            ELSE ParseErr
      [] c = "-" ->
            IF IsDigit(CharAt(s, i + 1))
            THEN LET d == parse_digits(s, i + 1, 0) IN
                 ParseOk(Number(FALSE, d.mantissa), d.pos)
            ELSE ParseErr
      [] IsDigit(c) ->
            LET d == parse_digits(s, i, 0) IN
            ParseOk(Number(TRUE, d.mantissa), d.pos)
      [] OTHER -> ParseErr

\* The members of an object from the key at position i on.
parse_members(s, i, acc) ==
    IF CharAt(s, i) # "\"" THEN ParseErr
    ELSE
    LET key == parse_string(s, i + 1, "") IN
    IF ~key.ok THEN ParseErr
    ELSE
    LET colon == skip_ws(s, key.pos) IN
    IF CharAt(s, colon) # ":" THEN ParseErr
    ELSE
    LET val == parse_value(s, colon + 1) IN
    IF ~val.ok THEN ParseErr
    ELSE
    LET next == skip_ws(s, val.pos)
        members == object_insert(acc, key.v, val.v)
    IN
    CASE CharAt(s, next) = "," -> parse_members(s, skip_ws(s, next + 1), members)
      [] CharAt(s, next) = "}" -> ParseOk(Object(members), next + 1)
      [] OTHER -> ParseErr

\* The elements of an array from position i on.
parse_elements(s, i, acc) ==
    LET val == parse_value(s, i) IN
    IF ~val.ok THEN ParseErr
    ELSE
    LET next == skip_ws(s, val.pos) IN
    CASE CharAt(s, next) = "," -> parse_elements(s, next + 1, Append(acc, val.v))
      [] CharAt(s, next) = "]" -> ParseOk(Array(Append(acc, val.v)), next + 1)
      [] OTHER -> ParseErr

\* json::parse: one value, then nothing but whitespace.
json_parse(s) ==
    LET val == parse_value(s, 1) IN
    IF val.ok /\ skip_ws(s, val.pos) > Len(s) THEN val ELSE ParseErr

\* to_flat_json: Ok(r) or the parse error.
to_flat_json(s) ==
    LET v == json_parse(s) IN
    IF v.ok THEN [ok |-> TRUE, r |-> to_flat_json_int(v.v, "")]
    ELSE [ok |-> FALSE]

\* The four tests of main.rs.
test_flat_json ==
    /\ to_flat_json("[\"a\",\"b\"]") = [ok |-> TRUE, r |-> "0:a\n1:b\n"]
    /\ to_flat_json("{\"a\":\"b\", \"n\":42}") = [ok |-> TRUE, r |-> "a:b\nn:42\n"]
    /\ to_flat_json("{\"a\": { \"n\":42 } }") = [ok |-> TRUE, r |-> "a.n:42\n"]
    /\ to_flat_json("[{\"a\": { \"n\":42 } }]") = [ok |-> TRUE, r |-> "0.a.n:42\n"]

(***************************************************************************)
(* serde_json::to_string_pretty of a value of a struct that derives        *)
(* Serialize: the fields in declaration order, written by PrettyFormatter  *)
(* with an indent of two spaces.                                           *)
(***************************************************************************)
\* The declaration of a struct type, by its name.
DeclOf(ty) ==
    CASE ty = "Distro" -> Distro
      [] ty = "Tag" -> Tag
      [] ty = "Host" -> Host

ElementType(ty) == CASE ty = "Vec<Tag>" -> "Tag"

RECURSIVE escape_str(_)
\* format_escaped_str_contents.
escape_str(s) ==
    IF s = "" THEN ""
    ELSE LET c == SubSeq(s, 1, 1) IN
         ( CASE c = "\"" -> "\\\""
             [] c = "\\" -> "\\\\"
             [] c = "\n" -> "\\n"
             [] c = "\r" -> "\\r"
             [] c = "\t" -> "\\t"
             [] OTHER -> c )
         \o escape_str(SubSeq(s, 2, Len(s)))

RECURSIVE Indent(_)
Indent(level) == IF level = 0 THEN "" ELSE "  " \o Indent(level - 1)

RECURSIVE pretty(_, _, _), pretty_fields(_, _, _, _), pretty_elements(_, _, _, _)
\* The text of value x of type ty, inside `level` enclosing containers.
pretty(x, ty, level) ==
    CASE ty = "String" -> "\"" \o escape_str(x) \o "\""
      [] ty = "bool" -> IF x THEN "true" ELSE "false"
      [] ty \in SequenceTypes ->
            IF x = <<>> THEN "[]"
            ELSE "[" \o pretty_elements(x, ElementType(ty), level + 1, 1)
                 \o "\n" \o Indent(level) \o "]"
      [] OTHER ->
            "{" \o pretty_fields(x, DeclOf(ty).data.fields.named, level + 1, 1)
            \o "\n" \o Indent(level) \o "}"

\* The fields of a struct from field i on.
pretty_fields(x, named, level, i) ==
    IF i > Len(named) THEN ""
    ELSE (IF i = 1 THEN "\n" ELSE ",\n") \o Indent(level)
         \o "\"" \o escape_str(named[i].ident) \o "\": "
         \o pretty(x[named[i].ident], named[i].ty, level)
         \o pretty_fields(x, named, level, i + 1)

\* The elements of a sequence from element i on.
pretty_elements(xs, ty, level, i) ==
    IF i > Len(xs) THEN ""
    ELSE (IF i = 1 THEN "\n" ELSE ",\n") \o Indent(level)
         \o pretty(xs[i], ty, level)
         \o pretty_elements(xs, ty, level, i + 1)

to_string_pretty(host) == pretty(host, "Host", 0)

(***************************************************************************)
(* Regex, for the patterns of the model: literal characters and ".", which *)
(* matches any character but the newline.  "(" opens a group that nothing  *)
(* closes, so a pattern with it does not compile.                          *)
(***************************************************************************)
regex_new(pattern) ==
    IF \E i \in 1..Len(pattern) : CharAt(pattern, i) = "("
    THEN [ok |-> FALSE]
    ELSE [ok |-> TRUE, re |-> pattern]

\* Whether the pattern matches the text from position `start` on.
MatchesAt(re, text, start) ==
    /\ start + Len(re) - 1 <= Len(text)
    /\ \A j \in 1..Len(re) :
          IF CharAt(re, j) = "." THEN CharAt(text, start + j - 1) # "\n"
          ELSE CharAt(text, start + j - 1) = CharAt(re, j)

\* Regex::is_match: the pattern matches somewhere in the text.
is_match(re, text) == \E start \in 1..(Len(text) + 1) : MatchesAt(re, text, start)

(***************************************************************************)
(* The inputs of a run.                                                    *)
(***************************************************************************)
\* The largest number of records in the API's response.
MaxHosts == 2

None == [some |-> FALSE]

Some(x) == [some |-> TRUE, v |-> x]

HostA ==
    [host_id |-> "i-0a", host_url |-> "a.example.com",
     distro |-> [distro_id |-> "ubuntu1804", provider |-> "ec2",
                 image_id |-> "ami-1"],
     provisioned |-> TRUE, started_by |-> "mark", host_type |-> "m5",
     user |-> "ubuntu", status |-> "running", user_host |-> TRUE,
     no_expiration |-> FALSE,
     instance_tags |-> <<[key |-> "name", value |-> "say \"hi\"",
                          can_be_modified |-> TRUE]>>,
     instance_type |-> "m5.large", zone |-> "us-east-1a",
     display_name |-> "", home_volume_id |-> ""]

HostB ==
    [host_id |-> "i-0b",
     host_url |-> "ec2-1-2-3-4.compute-1.amazonaws.com",
     distro |-> [distro_id |-> "rhel80", provider |-> "ec2",
                 image_id |-> "ami-2"],
     provisioned |-> FALSE, started_by |-> "mark", host_type |-> "c5",
     user |-> "ec2-user", status |-> "stopped", user_host |-> TRUE,
     no_expiration |-> TRUE, instance_tags |-> <<>>,
     instance_type |-> "c5.xlarge", zone |-> "us-east-1b",
     display_name |-> "build\nbox", home_volume_id |-> "vol-1"]

SampleHosts == {HostA, HostB}

RECURSIVE SeqsUpTo(_, _)
\* The sequences over S of length at most n.
SeqsUpTo(S, n) ==
    IF n = 0 THEN {<<>>}
    ELSE SeqsUpTo(S, n - 1) \cup
         { Append(q, x) : q \in { q \in SeqsUpTo(S, n - 1) : Len(q) = n - 1 },
                          x \in S }

\* The bodies the API answers with that decode to Vec<Host>.
Responses == SeqsUpTo(SampleHosts, MaxHosts)

Outputs == {"flat", "json", "xml"}

Patterns == {"status:running", "s..pped", "("}

Argvs ==
    [output : {None} \cup { Some(o) : o \in Outputs },
     url : BOOLEAN,
     filter : {None} \cup { Some(p) : p \in Patterns }]

(***************************************************************************)
(* main.                                                                   *)
(***************************************************************************)
\* OutputType::from_str.
from_str(day) ==
    CASE day = "json" -> [ok |-> TRUE, v |-> "Json"]
      [] day = "flat" -> [ok |-> TRUE, v |-> "Flat"]
      [] OTHER -> [ok |-> FALSE]

\* The --output value structopt hands to from_str: default_value = "flat".
OutputArg == IF argv.output.some THEN argv.output.v ELSE "flat"

\* main stops: with Err from a `?`, by a panic, or in Cli::from_args.
Stop(how) ==
    /\ exit' = how
    /\ UNCHANGED <<argv, args, pc, hosts, filter, cur, stdout, printed, fvars, evars>>

\* Cli::from_args.
FromArgs ==
    /\ exit = "running"
    /\ pc = "from_args"
    /\ from_str(OutputArg).ok
    /\ args' = [output |-> from_str(OutputArg).v, url |-> argv.url,
                filter |-> argv.filter]
    /\ pc' = "new_from_home"
    /\ UNCHANGED <<argv, hosts, filter, cur, stdout, printed, exit, fvars, evars>>

\* Cli::from_args when from_str fails: structopt reports it and exits.
FromArgsFails ==
    /\ exit = "running"
    /\ pc = "from_args"
    /\ ~from_str(OutputArg).ok
    /\ Stop("usage")

\* EvergreenClient::new_from_home()?, with a usable home and config file.
NewFromHome ==
    /\ exit = "running"
    /\ pc = "new_from_home"
    /\ pc' = "get_hosts"
    /\ UNCHANGED <<argv, args, hosts, filter, cur, stdout, printed, exit, fvars, evars>>

\* new_from_home returns Err: no home directory, File::open, serde_yaml or
\* the client builder failed.
NewFromHomeFails ==
    /\ exit = "running"
    /\ pc = "new_from_home"
    /\ Stop("Err")

\* new_from_home panics: expect("Bad Api-User") or expect("Bad Api-Key").
NewFromHomePanics ==
    /\ exit = "running"
    /\ pc = "new_from_home"
    /\ Stop("panic")

\* client.get_hosts(Option::None)?, answered with a body that decodes.
GetHosts ==
    /\ exit = "running"
    /\ pc = "get_hosts"
    /\ \E v \in Responses : hosts' = v
    /\ pc' = "filter"
    /\ UNCHANGED <<argv, args, filter, cur, stdout, printed, exit, fvars, evars>>

\* get_hosts returns Err: send, text or serde_json::from_str failed.
GetHostsFails ==
    /\ exit = "running"
    /\ pc = "get_hosts"
    /\ Stop("Err")

\* get_hosts panics: the unwrap of Url::parse in get_hosts_url.
GetHostsPanics ==
    /\ exit = "running"
    /\ pc = "get_hosts"
    /\ Stop("panic")

\* No --filter: filter stays Option::None.
NoFilter ==
    /\ exit = "running"
    /\ pc = "filter"
    /\ ~args.filter.some
    /\ filter' = None
    /\ pc' = "loop"
    /\ cur' = 1
    /\ UNCHANGED <<argv, args, hosts, stdout, printed, exit, fvars, evars>>

\* filter = Some(Regex::new(&filt)?).
CompileFilter ==
    /\ exit = "running"
    /\ pc = "filter"
    /\ args.filter.some
    /\ regex_new(args.filter.v).ok
    /\ filter' = Some(regex_new(args.filter.v).re)
    /\ pc' = "loop"
    /\ cur' = 1
    /\ UNCHANGED <<argv, args, hosts, stdout, printed, exit, fvars, evars>>

\* Regex::new(&filt)? returns Err.
CompileFilterFails ==
    /\ exit = "running"
    /\ pc = "filter"
    /\ args.filter.some
    /\ ~regex_new(args.filter.v).ok
    /\ Stop("Err")

\* The loop is at a record.
AtRecord ==
    /\ exit = "running"
    /\ pc = "loop"
    /\ cur <= Len(hosts)

\* let flat = to_flat_json(&serde_json::to_string_pretty(&host)?)?
Flat(host) == to_flat_json(to_string_pretty(host))

\* A `?` of that statement takes its Err branch: to_string_pretty or
\* to_flat_json returned Err.
FlatFails ==
    /\ AtRecord
    /\ Stop("Err")

\* The test of the filter the wrong way round.
Filtered_inverted(flat) == filter.some /\ is_match(filter.v, flat)

\* The filter does not match `flat`: continue.
Filtered(flat) == filter.some /\ ~is_match(filter.v, flat)

Skip ==
    /\ AtRecord
    /\ Flat(hosts[cur]).ok
    /\ Filtered(Flat(hosts[cur]).r)
    /\ cur' = cur + 1
    /\ UNCHANGED <<argv, args, pc, hosts, filter, stdout, printed, exit, fvars, evars>>

\* println!: one more entry on stdout, for the record the loop is at.
Println(text) ==
    /\ stdout' = Append(stdout, text \o "\n")
    /\ printed' = Append(printed, cur)
    /\ cur' = cur + 1
    /\ UNCHANGED <<argv, args, pc, hosts, filter, exit, fvars, evars>>

\* args.url: println!("{}@{}", host.user, host.host_url).
PrintUrl ==
    /\ AtRecord
    /\ Flat(hosts[cur]).ok
    /\ ~Filtered(Flat(hosts[cur]).r)
    /\ args.url
    /\ Println(hosts[cur].user \o "@" \o hosts[cur].host_url)

\* The flat output without regard to --url.
PrintFlat_whatever_url ==
    /\ AtRecord
    /\ Flat(hosts[cur]).ok
    /\ ~Filtered(Flat(hosts[cur]).r)
    /\ args.output = "Flat"
    /\ Println(Flat(hosts[cur]).r)

\* OutputType::Flat: println!("{}", flat).
PrintFlat ==
    /\ AtRecord
    /\ Flat(hosts[cur]).ok
    /\ ~Filtered(Flat(hosts[cur]).r)
    /\ ~args.url
    /\ args.output = "Flat"
    /\ Println(Flat(hosts[cur]).r)

\* OutputType::Json: println!("{}", serde_json::to_string_pretty(&host)?).
PrintJson ==
    /\ AtRecord
    /\ Flat(hosts[cur]).ok
    /\ ~Filtered(Flat(hosts[cur]).r)
    /\ ~args.url
    /\ args.output = "Json"
    /\ Println(to_string_pretty(hosts[cur]))

\* The Err branch taken only after the record's flat text was printed.
PrintJsonFails_after_printing ==
    /\ AtRecord
    /\ Flat(hosts[cur]).ok
    /\ ~Filtered(Flat(hosts[cur]).r)
    /\ ~args.url
    /\ args.output = "Json"
    /\ stdout' = Append(stdout, Flat(hosts[cur]).r \o "\n")
    /\ printed' = Append(printed, cur)
    /\ exit' = "Err"
    /\ UNCHANGED <<argv, args, pc, hosts, filter, cur, fvars, evars>>

\* OutputType::Json, and the `?` of to_string_pretty takes its Err branch.
PrintJsonFails ==
    /\ AtRecord
    /\ Flat(hosts[cur]).ok
    /\ ~Filtered(Flat(hosts[cur]).r)
    /\ ~args.url
    /\ args.output = "Json"
    /\ Stop("Err")

\* The loop is over: Ok(()).
Finish ==
    /\ exit = "running"
    /\ pc = "loop"
    /\ cur > Len(hosts)
    /\ pc' = "return"
    /\ exit' = "Ok"
    /\ UNCHANGED <<argv, args, hosts, filter, cur, stdout, printed, fvars, evars>>

\* main is not running.
MainIdle ==
    /\ argv = [output |-> None, url |-> FALSE, filter |-> None]
    /\ args = [output |-> "Flat", url |-> FALSE, filter |-> None]
    /\ pc = "idle"
    /\ hosts = <<>>
    /\ filter = None
    /\ cur = 1
    /\ stdout = <<>>
    /\ printed = <<>>
    /\ exit = "idle"

\* Neither the macro nor the generated code is in use.
FieldsIdle ==
    /\ decl = UnitStruct
    /\ add_fields = <<>>
    /\ epc = "idle"
    /\ call = "none"
    /\ eprefix = ""
    /\ out = <<>>
    /\ out0 = <<>>
    /\ idx = 1
    /\ joined = NoJoin

\* No to_flat_json is running.
FlattenIdle ==
    /\ tree = Null
    /\ stack = <<>>
    /\ r = ""
    /\ emitted = <<>>
    /\ visited = <<>>
    /\ fresult = "idle"

FieldsInit ==
    /\ decl \in Decls
    /\ add_fields = <<>>
    /\ epc = "derive"
    /\ call = "none"
    /\ eprefix = ""
    /\ out = <<>>
    /\ out0 = <<>>
    /\ idx = 1
    /\ joined = NoJoin
    /\ FlattenIdle
    /\ MainIdle

FieldsNext ==
    \/ Derive
    \/ DeriveUnimplemented
    \/ CallEvgFields
    \/ CallEvgFieldsNested
    \/ Push
    \/ Return
    \/ MakeName

SpecFields == FieldsInit /\ [][FieldsNext]_vars

\* to_flat_json after a successful json::parse: r = String::new() and the
\* outermost call to_flat_json_int(&v, "", &mut r).
FlattenInit ==
    /\ tree \in Trees(MaxNodes)
    /\ stack = <<Frame(tree, "", <<>>)>>
    /\ r = ""
    /\ emitted = <<>>
    /\ visited = << <<>> >>
    /\ fresult = "running"
    /\ FieldsIdle
    /\ MainIdle

FlattenNext ==
    \/ NullArm
    \/ ShortArm
    \/ StringArm
    \/ NumberArm
    \/ BooleanArm
    \/ ObjectArm
    \/ ArrayArm
    \/ LoopDone

SpecFlatten == FlattenInit /\ [][FlattenNext]_vars

\* to_flat_json_int runs until it returns; it is never abandoned half way.
LiveFlatten == SpecFlatten /\ WF_vars(FlattenNext)

\* The state main starts in.
Init ==
    /\ argv \in Argvs
    /\ args = [output |-> "Flat", url |-> FALSE, filter |-> None]
    /\ pc = "from_args"
    /\ hosts = <<>>
    /\ filter = None
    /\ cur = 1
    /\ stdout = <<>>
    /\ printed = <<>>
    /\ exit = "running"
    /\ FlattenIdle
    /\ FieldsIdle

Next ==
    \/ FromArgs
    \/ FromArgsFails
    \/ NewFromHome
    \/ NewFromHomeFails
    \/ NewFromHomePanics
    \/ GetHosts
    \/ GetHostsFails
    \/ GetHostsPanics
    \/ NoFilter
    \/ CompileFilter
    \/ CompileFilterFails
    \/ FlatFails
    \/ Skip
    \/ PrintUrl
    \/ PrintFlat
    \/ PrintJson
    \/ PrintJsonFails
    \/ Finish

Spec == Init /\ [][Next]_vars

(***************************************************************************)
(* What the flattener is expected to do, stated on the tree itself.        *)
(***************************************************************************)
RECURSIVE NodeAt(_, _)
\* The node a route of child positions leads to.
NodeAt(v, route) ==
    IF route = <<>> THEN v ELSE NodeAt(Child(v, Head(route)), Tail(route))

RECURSIVE AllRoutes(_)
\* The routes of all nodes of v.
AllRoutes(v) ==
    {<<>>} \cup
    ( IF IsContainer(v)
      THEN UNION { { <<i>> \o rt : rt \in AllRoutes(Child(v, i)) }
                   : i \in 1..Len(Members(v)) }
      ELSE {} )

LeafRoutes(v) == { rt \in AllRoutes(v) : ~IsContainer(NodeAt(v, rt)) }

\* Depth-first, left-to-right: a node comes before its descendants, and an
\* earlier member's subtree before a later member's.
Before(a, b) ==
    \/ Len(a) < Len(b) /\ SubSeq(b, 1, Len(a)) = a
    \/ \E j \in 1..Len(a) :
          /\ j <= Len(b)
          /\ SubSeq(a, 1, j - 1) = SubSeq(b, 1, j - 1)
          /\ a[j] < b[j]

RECURSIVE ConcatTexts(_)
ConcatTexts(es) ==
    IF es = <<>> THEN "" ELSE Head(es).text \o ConcatTexts(Tail(es))

RECURSIVE Segments(_, _)
\* The keys (of objects) and decimal indices (of arrays) along a route.
Segments(v, route) ==
    IF route = <<>> THEN <<>>
    ELSE <<IF v.t = "Object" THEN v.o[Head(route)][1]
           ELSE ToString(Head(route) - 1)>>
         \o Segments(Child(v, Head(route)), Tail(route))

RECURSIVE JoinDot(_)
JoinDot(segs) ==
    IF segs = <<>> THEN ""
    ELSE IF Len(segs) = 1 THEN segs[1]
    ELSE segs[1] \o "." \o JoinDot(Tail(segs))

\* The text of a scalar, as the specification gives it.
ScalarText(v) ==
    CASE v.t = "Null" -> "null"
      [] v.t = "Boolean" -> IF v.b THEN "true" ELSE "false"
      [] v.t = "Number" ->
            (IF v.n.positive THEN "" ELSE "-") \o ToString(v.n.mantissa)
      [] v.t \in {"Short", "String"} -> v.s

\* C1: when flatten is done, it has written exactly one line per scalar leaf
\* of the tree and none for an Object or Array, the lines come in depth-first
\* left-to-right order, and the output is these lines one after the other.
C1_OneLinePerLeafInOrder ==
    fresult = "Ok" =>
        /\ { emitted[j].route : j \in 1..Len(emitted) } = LeafRoutes(tree)
        /\ Len(emitted) = Cardinality(LeafRoutes(tree))
        /\ \A j, k \in 1..Len(emitted) :
              j < k => Before(emitted[j].route, emitted[k].route)
        /\ r = ConcatTexts(emitted)

C1_Witness ==
    /\ fresult = "Ok"
    /\ Len(emitted) = 2
    /\ tree.t = "Object"
    /\ \E j \in 1..Len(tree.o) : IsContainer(tree.o[j][2])

\* C2: the path of every line flatten writes is the keys and decimal indices
\* on the route from the root to the leaf, joined with ".".
C2_PathIsJoinedRoute ==
    \A j \in 1..Len(emitted) :
        emitted[j].prefix = JoinDot(Segments(tree, emitted[j].route))

\* C3: every line flatten writes is the prefix, ":", the scalar's text (null,
\* true or false, the number in decimal, the string's characters as they
\* are) and one newline.
C3_LeafText ==
    \A j \in 1..Len(emitted) :
        emitted[j].text =
            emitted[j].prefix \o ":"
                \o ScalarText(NodeAt(tree, emitted[j].route)) \o "\n"

C3_Witness ==
    /\ fresult = "Ok"
    /\ \E j \in 1..Len(emitted) :
          /\ NodeAt(tree, emitted[j].route).t = "String"
          /\ emitted[j].prefix = "a.0"
    /\ \E j \in 1..Len(emitted) :
          NodeAt(tree, emitted[j].route).t = "Number"

\* C10: flatten terminates, with Ok, having called to_flat_json_int exactly
\* once for every node of the tree.
C10_Terminates ==
    <>( /\ fresult = "Ok"
        /\ stack = <<>>
        /\ Len(visited) = Cardinality(AllRoutes(tree))
        /\ { visited[j] : j \in 1..Len(visited) } = AllRoutes(tree) )

C10_Witness ==
    /\ fresult = "Ok"
    /\ Len(visited) = MaxNodes
    /\ \E j \in 1..Len(visited) : Len(visited[j]) = 3

(***************************************************************************)
(* What the field-path enumerator is expected to do.                       *)
(***************************************************************************)
\* The declared field names of a struct with named fields, in order.
DeclaredNames(d) ==
    [i \in 1..Len(d.data.fields.named) |-> d.data.fields.named[i].ident]

\* The positions of the fields of sequence type.
SequenceFields(d) ==
    { i \in 1..Len(d.data.fields.named) :
        d.data.fields.named[i].ty \in SequenceTypes }

\* What evg_fields_nested has appended to `out`.
Appended == SubSeq(out, Len(out0) + 1, Len(out))

StartsWith(s, p) == Len(s) >= Len(p) /\ SubSeq(s, 1, Len(p)) = p

\* C4: for a struct with named fields f1, f2, ..., evg_fields() returns
\* exactly [f1, f2, ...] and evg_fields_nested with a prefix p that is not
\* empty appends exactly ["p.f1", "p.f2", ...], both in declaration order.
C4_FieldsInDeclarationOrder ==
    (epc = "returned" /\ decl.data.fields.kind = "Named") =>
        /\ call = "evg_fields" => out = DeclaredNames(decl)
        /\ eprefix # "" =>
              out = out0 \o [i \in 1..Len(DeclaredNames(decl)) |->
                                eprefix \o "." \o DeclaredNames(decl)[i]]

C4_Witness ==
    /\ epc = "returned"
    /\ decl = Host
    /\ call = "nested"
    /\ eprefix = "p"
    /\ out0 = <<"x">>
    /\ Len(out) = 16

\* C5 as stated: what evg_fields returns has no entry for a field whose type
\* is a sequence.
C5_NoPathForSequenceField ==
    (epc = "returned" /\ call = "evg_fields"
        /\ decl.data.fields.kind = "Named") =>
        \A i \in SequenceFields(decl) :
            \A j \in 1..Len(out) : out[j] # decl.data.fields.named[i].ident

\* C5 as amended: a field of sequence type contributes exactly one path, its
\* own name joined to the prefix, at its place in declaration order, and no
\* path for its elements.
C5_OnePathForSequenceField ==
    (epc = "returned" /\ decl.data.fields.kind = "Named") =>
        \A i \in SequenceFields(decl) :
            LET own == IF eprefix = "" THEN decl.data.fields.named[i].ident
                       ELSE eprefix \o "." \o decl.data.fields.named[i].ident
            IN  /\ Len(Appended) >= i
                /\ Appended[i] = own
                /\ \A j \in 1..Len(Appended) :
                      /\ Appended[j] = own => j = i
                      /\ ~StartsWith(Appended[j], own \o ".")

C5_Witness ==
    /\ epc = "returned"
    /\ call = "evg_fields"
    /\ decl = Host
    /\ out[11] = "instance_tags"

\* C6: make_name("", x) = x, and make_name(p, x) = p + "." + x when p is not
\* empty.
C6_MakeName ==
    /\ joined.prefix = "" => joined.result = joined.suffix
    /\ joined.prefix # "" =>
          joined.result = joined.prefix \o "." \o joined.suffix

C6_Witness ==
    /\ joined.prefix = "a.b"
    /\ joined.suffix = "."
    /\ joined.result = "a.b.."

(***************************************************************************)
(* The two forms of to_flat_json_int agree, and the tests of main.rs pass. *)
(***************************************************************************)
FlattenAgrees ==
    /\ fresult = "Ok" => r = to_flat_json_int(tree, "")
    /\ test_flat_json

(***************************************************************************)
(* What main is expected to print.                                         *)
(***************************************************************************)
\* The record printed by the j-th println!.
PrintedHost(j) == hosts[printed[j]]

\* Whether the --filter given on the command line lets a record through.
Passes(host) ==
    argv.filter.some => is_match(argv.filter.v, Flat(host).r)

\* The positions, among the first n records, of those the filter lets through.
PassingUpTo(n) == { i \in 1..n : Passes(hosts[i]) }

\* `printed` is exactly the positions in S, in ascending order.
PrintedAre(S) ==
    /\ Len(printed) = Cardinality(S)
    /\ { printed[j] : j \in 1..Len(printed) } = S
    /\ \A i, j \in 1..Len(printed) : i < j => printed[i] < printed[j]
    /\ Len(stdout) = Len(printed)

\* The flattened text of HostA, line by line.
FlatHostA ==
    "host_id:i-0a\n" \o "host_url:a.example.com\n"
    \o "distro.distro_id:ubuntu1804\n" \o "distro.provider:ec2\n"
    \o "distro.image_id:ami-1\n" \o "provisioned:true\n"
    \o "started_by:mark\n" \o "host_type:m5\n" \o "user:ubuntu\n"
    \o "status:running\n" \o "user_host:true\n" \o "no_expiration:false\n"
    \o "instance_tags.0.key:name\n" \o "instance_tags.0.value:say \"hi\"\n"
    \o "instance_tags.0.can_be_modified:true\n"
    \o "instance_type:m5.large\n" \o "zone:us-east-1a\n"
    \o "display_name:\n" \o "home_volume_id:\n"

\* C7: with --url every record printed is printed as "{user}@{host_url}",
\* whatever --output is; without it a record is printed as its flattened text
\* for --output flat and as its pretty JSON document for --output json.
C7_PrintedForm ==
    \A j \in 1..Len(stdout) :
        /\ argv.url => stdout[j] =
              PrintedHost(j).user \o "@" \o PrintedHost(j).host_url \o "\n"
        /\ (~argv.url /\ OutputArg = "flat") =>
              stdout[j] = Flat(PrintedHost(j)).r \o "\n"
        /\ (~argv.url /\ OutputArg = "json") =>
              stdout[j] = to_string_pretty(PrintedHost(j)) \o "\n"

C7_Witness ==
    /\ exit = "Ok"
    /\ ~argv.url
    /\ OutputArg = "flat"
    /\ hosts = <<HostB, HostA>>
    /\ Len(stdout) = 2
    /\ stdout[2] = FlatHostA \o "\n"

\* C8: when main returns Ok, the records printed are exactly the records of
\* the response whose flattened text the --filter matches (all of them
\* without --filter), in the order of the response, whatever the output
\* mode; a record that does not match leaves nothing on stdout.
C8_PrintedAreTheMatching ==
    exit = "Ok" => PrintedAre(PassingUpTo(Len(hosts)))

C8_Witness ==
    /\ exit = "Ok"
    /\ argv.filter = Some("status:running")
    /\ OutputArg = "json"
    /\ ~argv.url
    /\ hosts = <<HostB, HostA>>
    /\ printed = <<2>>

\* C9: an error ends the run there and then: before the loop nothing has
\* been printed; in the loop, at record cur, exactly the matching records
\* before cur have been printed; and main takes no further step.
C9_ErrorStopsTheRun ==
    exit \in {"Err", "panic", "usage"} =>
        /\ pc # "loop" => stdout = <<>> /\ printed = <<>>
        /\ pc = "loop" => PrintedAre(PassingUpTo(cur - 1))
        /\ ~ENABLED Next

C9_Witness ==
    /\ exit = "Err"
    /\ pc = "loop"
    /\ cur = 2
    /\ hosts = <<HostA, HostB>>
    /\ printed = <<1>>

====
